---- MODULE Spec2Model ----
(***************************************************************************)
(* ESP_LiveView server (servercodes/app.py): the /upload, /latest and      *)
(* /images/<filename> handlers running as concurrent request threads over  *)
(* the module-level latest_image dict and the uploads/ directory.          *)
(*                                                                         *)
(* A handler is a process whose pc names the source line it is about to    *)
(* execute.  Steps that touch only the request's own locals are merged     *)
(* into the next step that touches the clock, a file or latest_image.      *)
(* A viewer connection issues one read request (/latest or /images) at a   *)
(* time; uploads run concurrently with it and with each other.             *)
(*                                                                         *)
(* Spec is the running server.  SpecSingle runs one upload over a wider    *)
(* set of requests, SpecRestart adds restarts of the process, SpecLive     *)
(* states the scheduling of the handler threads, and SpecClient is the     *)
(* simulate_esp32s3 loop of the test client (servercodes/test/test.py).    *)
(***************************************************************************)
EXTENDS Integers, Sequences, FiniteSets, TLC

(* ------------------------------ bounds --------------------------------- *)
\* /upload requests received in one run (bounds the history counters)
MaxUploads == 2
\* last instant of the wall clock
MaxTick == 2
\* clock instants per wall-clock second (strftime "%S" truncates to seconds)
TicksPerSecond == 2

Uploaders == {"u1", "u2"}
Viewers == {"v1"}

(* --------------------------- values ------------------------------------ *)
\* Python None, and the empty string of a text field left out of a response
None == <<>>

\* two-digit rendering of the seconds field
SecStr == <<"00", "01", "02", "03", "04", "05">>

\* datetime.now().strftime("%Y%m%d_%H%M%S"): the instant truncated to seconds
strftime(now) == <<"20240101_1200", SecStr[(now \div TicksPerSecond) + 1]>>

\* f"image_{timestamp}.jpg"
FilenameOf(timestamp) == <<"image_">> \o timestamp \o <<".jpg">>

\* f"/images/{latest_image['filename']}"
UrlOf(filename) == <<"/images/">> \o filename

\* the second a timestamp names, as a number
SecOf(timestamp) == CHOOSE i \in 1..Len(SecStr) : SecStr[i] = timestamp[2]

Ticks == 0..MaxTick
Timestamps == {strftime(t) : t \in Ticks}
Filenames == {FilenameOf(ts) : ts \in Timestamps}
MissingName == <<"does-not-exist.jpg">>

(* --------------------------- base64 ------------------------------------ *)
B64Alphabet ==
  << "A","B","C","D","E","F","G","H","I","J","K","L","M","N","O","P",
     "Q","R","S","T","U","V","W","X","Y","Z","a","b","c","d","e","f",
     "g","h","i","j","k","l","m","n","o","p","q","r","s","t","u","v",
     "w","x","y","z","0","1","2","3","4","5","6","7","8","9","+","/" >>

IsB64(c) == \E i \in 1..Len(B64Alphabet) : B64Alphabet[i] = c
B64Val(c) == (CHOOSE i \in 1..Len(B64Alphabet) : B64Alphabet[i] = c) - 1

\* the value a failed decode yields in place of bytes (binascii.Error)
DecodeError == <<-1>>

\* binascii.a2b_base64 in non-strict mode, as base64.b64decode calls it:
\* characters outside the alphabet are skipped, a completed pad sequence
\* stops the scan, a dangling quad at the end of the input is an error.
RECURSIVE a2b(_, _, _, _, _, _)
a2b(s, i, quad, left, pads, out) ==
  IF i > Len(s)
  THEN IF quad # 0 THEN DecodeError ELSE out
  ELSE LET c == s[i] IN
    IF c = "="
    THEN IF quad >= 2 /\ quad + pads + 1 >= 4
         THEN out
         ELSE a2b(s, i + 1, quad, left, IF quad >= 2 THEN pads + 1 ELSE pads, out)
    ELSE IF ~IsB64(c)
    THEN a2b(s, i + 1, quad, left, pads, out)
    ELSE LET v == B64Val(c) IN
      CASE quad = 0 -> a2b(s, i + 1, 1, v, 0, out)
        [] quad = 1 -> a2b(s, i + 1, 2, v % 16, 0,
                           Append(out, (left * 4 + v \div 16) % 256))
        [] quad = 2 -> a2b(s, i + 1, 3, v % 4, 0,
                           Append(out, (left * 16 + v \div 4) % 256))
        [] OTHER    -> a2b(s, i + 1, 0, 0, 0,
                           Append(out, (left * 64 + v) % 256))

b64decode(s) == a2b(s, 1, 0, 0, 0, <<>>)

\* image_data.split(','): the pieces between commas
RECURSIVE SplitComma(_, _, _)
SplitComma(s, i, cur) ==
  IF i > Len(s) THEN <<cur>>
  ELSE IF s[i] = "," THEN <<cur>> \o SplitComma(s, i + 1, <<>>)
  ELSE SplitComma(s, i + 1, Append(cur, s[i]))

HasComma(s) == \E i \in 1..Len(s) : s[i] = ","

\* lines 49-50: if ',' in image_data: image_data = image_data.split(',')[1]
StripPrefix(s) == IF HasComma(s) THEN SplitComma(s, 1, <<>>)[2] ELSE s

(* --------------------------- requests ---------------------------------- *)
\* bodies of multipart file parts, one element per chunk that save() copies
Payloads == { <<2, 3>> }

\* values of the 'image' form field
FormInputs == { <<"d",",","Q","Q","=","=">>, <<"Q","Q","=">> }

\* pieces an 'image' form field is put together from
MaxPieces == 4

\* a comma, full and padded base64 quads, a quad with a pad missing, and a
\* character outside the base64 alphabet
FormPieces ==
  { <<",">>, <<"Q","Q","Q","Q">>, <<"Q","Q","=","=">>, <<"Q","Q","=">>, <<":">> }

RECURSIVE FormStrings(_)
FormStrings(n) ==
  IF n = 0 THEN { <<>> }
  ELSE LET S == FormStrings(n - 1)
       IN S \cup { s \o t : s \in S, t \in FormPieces }

\* every value of the 'image' form field that a request carries
FormValues == FormInputs \cup FormStrings(MaxPieces)

NoFile == [present |-> FALSE, filename |-> None, data |-> <<>>]
NoForm == [present |-> FALSE, image |-> <<>>]

FilePart(name, d) == [present |-> TRUE, filename |-> name, data |-> d]
FormField(s) == [present |-> TRUE, image |-> s]

Requests ==
  { [files |-> NoFile, form |-> NoForm] }
  \cup { [files |-> FilePart(None, <<>>), form |-> NoForm] }
  \cup { [files |-> FilePart(<<"f.jpg">>, d), form |-> NoForm] : d \in Payloads }
  \cup { [files |-> NoFile, form |-> FormField(s)] : s \in FormInputs }

NoRequest == [files |-> NoFile, form |-> NoForm]

(* --------------------------- the file system --------------------------- *)
\* open(path, "wb"): creates the file or truncates it to length zero
RECURSIVE Zeros(_)
Zeros(n) == IF n <= 0 THEN <<>> ELSE <<0>> \o Zeros(n - 1)

OpenWB(fs, name) ==
  [f \in DOMAIN fs \cup {name} |-> IF f = name THEN <<>> ELSE fs[f]]

\* write(2) of bytes at the descriptor's own offset: bytes past the end
\* extend the file, a gap left by another descriptor's truncation reads 0
WriteAtWhole(content, off, bytes) == bytes
WriteAt(content, off, bytes) ==
  LET padded == IF Len(content) < off
                THEN content \o Zeros(off - Len(content))
                ELSE content
      n == IF Len(padded) > off + Len(bytes) THEN Len(padded) ELSE off + Len(bytes)
  IN [i \in 1..n |-> IF i > off /\ i <= off + Len(bytes)
                     THEN bytes[i - off]
                     ELSE padded[i]]

FsWrite(fs, name, off, bytes) ==
  [fs EXCEPT ![name] = WriteAt(fs[name], off, bytes)]

(* --------------------------- state ------------------------------------- *)
VARIABLES
  clock,    \* the wall clock, in instants
  fs,       \* the uploads/ directory: file name -> content
  latest,   \* the module-level latest_image dict
  up,       \* the /upload handler threads
  rd,       \* the /latest and /images/<filename> handler threads
  h,        \* history of the run (not program state)
  cl        \* the simulate_esp32s3 call of the test client (test/test.py)

vars == <<clock, fs, latest, up, rd, h, cl>>

NoUpResp == [status |-> 0, error |-> "", filename |-> None, timestamp |-> None]

\* jsonify({'error': str(e)}), 500
ErrorResponseBlank(e) ==
  [status |-> 500, error |-> "", filename |-> None, timestamp |-> None]
ErrorResponse(e) ==
  [status |-> 500, error |-> e, filename |-> None, timestamp |-> None]

\* jsonify({'error': ...}), 400
BadRequest(e) ==
  [status |-> 400, error |-> e, filename |-> None, timestamp |-> None]

\* jsonify({'status': 'success', 'filename': ..., 'timestamp': ...}), 200
Success(filename, timestamp) ==
  [status |-> 200, error |-> "", filename |-> filename, timestamp |-> timestamp]

\* an /upload thread: its request, its locals (timestamp, filename, the
\* bytes to store, the offset of its open file), its response; and of the
\* history: seq numbers its register update while it runs, wrote that it
\* has written latest_image, putDone that its store write has returned,
\* alone that no other upload was in flight with it
IdleUp ==
  [pc |-> "idle", req |-> NoRequest, timestamp |-> None, filename |-> None,
   data |-> <<>>, off |-> 0, resp |-> NoUpResp,
   seq |-> 0, wrote |-> FALSE, putDone |-> FALSE, alone |-> FALSE]

NoRdResp ==
  [status |-> 0, error |-> "", filename |-> None, timestamp |-> None,
   url |-> None, body |-> <<>>]

\* a viewer thread: the route it serves, the <filename> of /images, the
\* values it has read from latest_image, its response; and of the history,
\* as of its start: minSeq the newest register update that had returned,
\* hadPut/acked whether a put / a successful upload of <filename> had
\* returned, quiet whether the last upload ran alone and none has
\* arrived since; fnSeq/tsSeq number
\* the register updates whose values it has read.  A 200 response keeps
\* of these only quiet and acked.
IdleRd ==
  [pc |-> "idle", route |-> "", name |-> None,
   filename |-> None, timestamp |-> None, resp |-> NoRdResp,
   fnSeq |-> 0, tsSeq |-> 0, minSeq |-> 0,
   hadPut |-> FALSE, acked |-> FALSE, quiet |-> FALSE]

NoQuiet == [filename |-> None, timestamp |-> None, data |-> <<>>]

\* a simulate_esp32s3 call: its arguments (exists stands for
\* os.path.exists(image_path)), the loop variable i, the result of the last
\* upload_image_binary call, the value returned; and of the history: the
\* uploads posted, those that succeeded, the seconds slept, the uploads
\* posted since the last sleep, whether the last step was a sleep
IdleClient ==
  [pc |-> "idle", exists |-> FALSE, interval |-> 0, count |-> 0, i |-> 0,
   result |-> "", ret |-> "",
   posted |-> 0, succeeded |-> 0, slept |-> 0, sinceSleep |-> 0,
   lastSleep |-> FALSE]

\* the process starts in the last instant of a second
Init ==
  /\ clock = TicksPerSecond - 1
  /\ fs = << >>
  /\ latest = [filename |-> None, timestamp |-> None]
  /\ up = [p \in Uploaders |-> IdleUp]
  /\ rd = [r \in Viewers |-> IdleRd]
  /\ h = [nseq |-> 0, src |-> [filename |-> 0, timestamp |-> 0], maxRet |-> 0,
          puts |-> {}, acked |-> {}, epoch |-> 0, quiet |-> NoQuiet,
          boots |-> 0]
  /\ cl = IdleClient

InFlight(u) == u.pc \notin {"idle", "done"}

\* a handler thread that has returned its response
Answered(resp) == [IdleUp EXCEPT !.pc = "done", !.resp = resp]

(* --------------------------- /upload ----------------------------------- *)
\* lines 28-29 and 31-35: the requests answered 400, with the message
RejectedLax(req) ==
  IF ~req.files.present /\ ~req.form.present THEN "No image data found"
  ELSE ""
Rejected(req) ==
  IF ~req.files.present /\ ~req.form.present THEN "No image data found"
  ELSE IF req.files.present /\ req.files.filename = None THEN "No image selected"
  ELSE ""

\* line 31: the branch that stores an accepted request
AfterStampParked(req) == IF req.files.present THEN "l43_open" ELSE "l57_wait"
AfterStamp(req) == IF req.files.present THEN "l43_open" ELSE "l58"

\* lines 40, 55: os.path.join(UPLOAD_FOLDER, filename), as a name in uploads/
PathOfTmp(filename) == filename \o <<".part">>
PathOf(filename) == filename

\* the server thread that takes the next request: threads are
\* interchangeable, the lowest free one is taken
Free(p) ==
  /\ ~InFlight(up[p])
  /\ p = "u2" => InFlight(up["u1"])

\* the arrival of an upload, as the other threads see it
Arrival(p) ==
  /\ Free(p)
  /\ h.epoch < MaxUploads
  /\ h' = [h EXCEPT !.epoch = @ + 1, !.quiet = NoQuiet]
  /\ rd' = [r \in Viewers |-> [rd[r] EXCEPT !.quiet = FALSE]]

Overlapped(p, mine) ==
  [x \in Uploaders |->
     IF x = p THEN mine
     ELSE IF InFlight(up[x]) THEN [up[x] EXCEPT !.alone = FALSE]
     ELSE up[x]]

\* lines 28-29, 34-35: a request without usable image data is answered 400
Reject(p, r) ==
  /\ Arrival(p)
  /\ Rejected(r) # ""
  /\ up' = Overlapped(p, [Answered(BadRequest(Rejected(r))) EXCEPT !.req = r])
  /\ UNCHANGED <<clock, fs, latest, cl>>

\* lines 28-40 (file part) and 46-55 (form field): the request passes the
\* checks and takes its timestamp and filename from the clock
Stamp(p, r) ==
  /\ Arrival(p)
  /\ Rejected(r) = ""
  /\ up' = Overlapped(p,
             [IdleUp EXCEPT !.pc = AfterStamp(r), !.req = r,
                            !.timestamp = strftime(clock),
                            !.filename = FilenameOf(strftime(clock)),
                            !.data = IF r.files.present THEN r.files.data ELSE <<>>,
                            !.alone = \A y \in Uploaders \ {p} : ~InFlight(up[y])])
  /\ UNCHANGED <<clock, fs, latest, cl>>

\* the put of p has returned
PutReturned(p, bytes) ==
  h' = [h EXCEPT !.puts = @ \cup {<<up[p].filename, bytes>>}]

\* line 43, image_file.save(filepath): open(dst, "wb")
SaveOpen(p) ==
  /\ up[p].pc = "l43_open"
  /\ fs' = OpenWB(fs, PathOf(up[p].filename))
  /\ IF Len(up[p].data) = 0
     THEN /\ up' = [up EXCEPT ![p].pc = "l62", ![p].off = 0, ![p].putDone = TRUE]
          /\ PutReturned(p, <<>>)
     ELSE /\ up' = [up EXCEPT ![p].pc = "l43_copy", ![p].off = 0]
          /\ UNCHANGED h
  /\ UNCHANGED <<clock, latest, rd, cl>>

\* line 43, image_file.save(filepath): copyfileobj writes the next chunk,
\* and closes the file after the last one
SaveCopy(p) ==
  /\ up[p].pc = "l43_copy"
  /\ LET o == up[p].off
         last == o + 1 = Len(up[p].data)
     IN /\ fs' = FsWrite(fs, PathOf(up[p].filename), o, <<up[p].data[o + 1]>>)
        /\ up' = [up EXCEPT ![p].off = IF last THEN 0 ELSE o + 1,
                            ![p].pc = IF last THEN "l62" ELSE "l43_copy",
                            ![p].putDone = last]
        /\ IF last THEN PutReturned(p, up[p].data) ELSE UNCHANGED h
  /\ UNCHANGED <<clock, latest, rd, cl>>

\* line 58: open(filepath, "wb")
FormOpen(p) ==
  /\ up[p].pc = "l58"
  /\ fs' = OpenWB(fs, PathOf(up[p].filename))
  /\ up' = [up EXCEPT ![p].pc = "l59", ![p].off = 0]
  /\ UNCHANGED <<clock, latest, rd, h, cl>>

\* lines 46-50 and 59: what base64.b64decode(image_data) yields, for every
\* value of the form field
DecodedOf == [s \in FormValues |-> b64decode(StripPrefix(s))]

Decoded(req) == DecodedOf[req.form.image]

\* line 59 raising binascii.Error, caught at line 71
DecodeFail(p) ==
  /\ up[p].pc = "l59"
  /\ Decoded(up[p].req) = DecodeError
  /\ up' = [up EXCEPT ![p] = Answered(ErrorResponse("Incorrect padding"))]
  /\ UNCHANGED <<clock, fs, latest, rd, h, cl>>

\* line 59: f.write(...) of the decoded bytes, flushed when the with block
\* closes the file
FormWrite(p) ==
  /\ up[p].pc = "l59"
  /\ Decoded(up[p].req) # DecodeError
  /\ LET d == Decoded(up[p].req)
     IN /\ fs' = FsWrite(fs, PathOf(up[p].filename), 0, d)
        /\ up' = [up EXCEPT ![p].pc = "l62", ![p].data = d, ![p].putDone = TRUE]
        /\ PutReturned(p, d)
  /\ UNCHANGED <<clock, latest, rd, cl>>

\* where an OSError leaves the handler: line 71, the except clause
Swallowed(u) == [u EXCEPT !.pc = "l62"]
Caught(u) == Answered(ErrorResponse("OSError"))

\* lines 43, 58-59 raising OSError (disk full, permissions), caught at line 71
StorageFail(p) ==
  /\ \/ up[p].pc \in {"l43_open", "l43_copy", "l58"}
     \/ up[p].pc = "l59" /\ Decoded(up[p].req) # DecodeError
  /\ up' = [up EXCEPT ![p] = Caught(up[p])]
  /\ UNCHANGED <<clock, fs, latest, rd, h, cl>>

\* line 62: latest_image['filename'] = filename
SetFilename(p) ==
  /\ up[p].pc = "l62"
  /\ latest' = [latest EXCEPT !.filename = up[p].filename]
  /\ up' = [up EXCEPT ![p].pc = "l63", ![p].seq = h.nseq + 1, ![p].wrote = TRUE]
  /\ h' = [h EXCEPT !.nseq = @ + 1, !.src.filename = h.nseq + 1]
  /\ UNCHANGED <<clock, fs, rd, cl>>

\* line 63 with a recency check: a record that is newer is kept
SetTimestampIfNewer(p) ==
  /\ up[p].pc = "l63"
  /\ latest' = IF latest.timestamp # None
                  /\ SecOf(latest.timestamp) > SecOf(up[p].timestamp)
               THEN latest
               ELSE [latest EXCEPT !.timestamp = up[p].timestamp]
  /\ up' = [up EXCEPT ![p].pc = "done", ![p].req = NoRequest,
                      ![p].seq = 0, ![p].alone = FALSE,
                      ![p].resp = Success(up[p].filename, up[p].timestamp)]
  /\ h' = [h EXCEPT !.src.timestamp = up[p].seq,
                    !.maxRet = IF up[p].seq > @ THEN up[p].seq ELSE @,
                    !.acked = @ \cup {up[p].filename},
                    !.quiet = IF up[p].alone
                              THEN [filename |-> up[p].filename,
                                    timestamp |-> up[p].timestamp,
                                    data |-> up[p].data]
                              ELSE NoQuiet]
  /\ UNCHANGED <<clock, fs, rd, cl>>

\* lines 63-69: latest_image['timestamp'] = timestamp, and the 200 response
SetTimestamp(p) ==
  /\ up[p].pc = "l63"
  /\ latest' = [latest EXCEPT !.timestamp = up[p].timestamp]
  /\ up' = [up EXCEPT ![p].pc = "done", ![p].req = NoRequest,
                      ![p].seq = 0, ![p].alone = FALSE,
                      ![p].resp = Success(up[p].filename, up[p].timestamp)]
  /\ h' = [h EXCEPT !.src.timestamp = up[p].seq,
                    !.maxRet = IF up[p].seq > @ THEN up[p].seq ELSE @,
                    !.acked = @ \cup {up[p].filename},
                    !.quiet = IF up[p].alone
                              THEN [filename |-> up[p].filename,
                                    timestamp |-> up[p].timestamp,
                                    data |-> up[p].data]
                              ELSE NoQuiet]
  /\ UNCHANGED <<clock, fs, rd, cl>>

\* the wall clock advances; only uploads read it, so it is followed as
\* long as the run has uploads to come
Tick ==
  /\ clock < MaxTick
  /\ h.epoch < MaxUploads
  /\ clock' = clock + 1
  /\ UNCHANGED <<fs, latest, up, rd, h, cl>>

(* --------------------------- /latest ----------------------------------- *)
\* jsonify({'error': 'No image uploaded yet'}), 404
QNotFound == [NoRdResp EXCEPT !.status = 404, !.error = "No image uploaded yet"]

\* line 77: the truth value of latest_image['filename']
Truthy(v) == v # None

\* a /latest request starts
QStarted ==
  [IdleRd EXCEPT !.route = "latest",
                 !.minSeq = h.maxRet,
                 !.quiet = h.quiet # NoQuiet]

\* line 77: if latest_image['filename'], and line 84 when it is falsy
QCheck(r) ==
  /\ rd[r].pc \in {"idle", "done"}
  /\ rd' = [rd EXCEPT ![r] =
              IF Truthy(latest.filename)
              THEN [QStarted EXCEPT !.pc = "l79"]
              ELSE [QStarted EXCEPT !.pc = "done", !.resp = QNotFound]]
  /\ UNCHANGED <<clock, fs, latest, up, h, cl>>

\* line 79: 'filename': latest_image['filename']
QFilename(r) ==
  /\ rd[r].pc = "l79"
  /\ rd' = [rd EXCEPT ![r].pc = "l80", ![r].filename = latest.filename,
                      ![r].fnSeq = h.src.filename]
  /\ UNCHANGED <<clock, fs, latest, up, h, cl>>

\* line 80: 'timestamp': latest_image['timestamp']
QTimestamp(r) ==
  /\ rd[r].pc = "l80"
  /\ rd' = [rd EXCEPT ![r].pc = "l81", ![r].timestamp = latest.timestamp,
                      ![r].tsSeq = h.src.timestamp]
  /\ UNCHANGED <<clock, fs, latest, up, h, cl>>

\* lines 78-82: 'url': f"/images/{latest_image['filename']}", and the response
QUrl(r) ==
  /\ rd[r].pc = "l81"
  /\ rd' = [rd EXCEPT ![r] =
              [IdleRd EXCEPT !.pc = "done", !.route = "latest",
                 !.quiet = rd[r].quiet,
                 !.resp = [NoRdResp EXCEPT !.status = 200,
                             !.filename = rd[r].filename,
                             !.timestamp = rd[r].timestamp,
                             !.url = UrlOf(latest.filename)]]]
  /\ UNCHANGED <<clock, fs, latest, up, h, cl>>

(* --------------------------- /images/<filename> ------------------------ *)
\* line 89, send_from_directory: whether the name is a file of uploads/
ExistsNonEmpty(dir, name) == name \in DOMAIN dir /\ Len(dir[name]) > 0
Exists(dir, name) == name \in DOMAIN dir

\* an /images/<filename> request starts
GStarted(name) ==
  [IdleRd EXCEPT !.route = "images", !.name = name,
                 !.hadPut = \E e \in h.puts : e[1] = name,
                 !.acked = name \in h.acked,
                 !.quiet = h.quiet # NoQuiet /\ h.quiet.filename = name]

\* line 89: the lookup of the name, 404 when it is no file of uploads/
GLookup(r, name) ==
  /\ rd[r].pc \in {"idle", "done"}
  /\ rd' = [rd EXCEPT ![r] =
              IF Exists(fs, name)
              THEN [GStarted(name) EXCEPT !.pc = "send"]
              ELSE [GStarted(name) EXCEPT
                      !.pc = "done", !.resp = [NoRdResp EXCEPT !.status = 404]]]
  /\ UNCHANGED <<clock, fs, latest, up, h, cl>>

\* line 89 as a take: the file is removed once it has been sent
GSendAndRemove(r) ==
  /\ rd[r].pc = "send"
  /\ rd' = [rd EXCEPT ![r] =
              [IdleRd EXCEPT !.pc = "done", !.route = "images",
                 !.name = rd[r].name, !.quiet = rd[r].quiet,
                 !.acked = rd[r].acked,
                 !.resp = [NoRdResp EXCEPT !.status = 200,
                             !.body = fs[rd[r].name]]]]
  /\ fs' = [f \in DOMAIN fs \ {rd[r].name} |-> fs[f]]
  /\ UNCHANGED <<clock, latest, up, h, cl>>

\* line 89: the opened file is read into the response body
GSend(r) ==
  /\ rd[r].pc = "send"
  /\ rd' = [rd EXCEPT ![r] =
              [IdleRd EXCEPT !.pc = "done", !.route = "images",
                 !.name = rd[r].name, !.quiet = rd[r].quiet,
                 !.acked = rd[r].acked,
                 !.resp = [NoRdResp EXCEPT !.status = 200,
                             !.body = fs[rd[r].name]]]]
  /\ UNCHANGED <<clock, fs, latest, up, h, cl>>

(* --------------------------- specification ----------------------------- *)
Next ==
  \/ Tick
  \/ \E p \in Uploaders : \E r \in Requests : Reject(p, r)
  \/ \E p \in Uploaders : \E r \in Requests : Stamp(p, r)
  \/ \E p \in Uploaders : SaveOpen(p)
  \/ \E p \in Uploaders : SaveCopy(p)
  \/ \E p \in Uploaders : FormOpen(p)
  \/ \E p \in Uploaders : DecodeFail(p)
  \/ \E p \in Uploaders : FormWrite(p)
  \/ \E p \in Uploaders : StorageFail(p)
  \/ \E p \in Uploaders : SetFilename(p)
  \/ \E p \in Uploaders : SetTimestamp(p)
  \/ \E r \in Viewers : QCheck(r)
  \/ \E r \in Viewers : QFilename(r)
  \/ \E r \in Viewers : QTimestamp(r)
  \/ \E r \in Viewers : QUrl(r)
  \/ \E r \in Viewers : \E name \in Filenames \cup {MissingName} : GLookup(r, name)
  \/ \E r \in Viewers : GSend(r)

Spec == Init /\ [][Next]_vars

(* --------------------------- one upload, any request ------------------- *)
\* a request that carries 'image' as a file part and as a form field
BothForms ==
  [files |-> FilePart(<<"f.jpg">>, <<2, 3>>),
   form |-> FormField(<<"Q","Q","=","=">>)]

SingleRequests ==
  Requests \cup {BothForms}
  \cup { [files |-> NoFile, form |-> FormField(s)] : s \in FormStrings(MaxPieces) }

\* lines 26-72 for the first request the process receives, run to its end
\* with no other request in flight
SingleNext ==
  \/ \E p \in Uploaders : \E r \in SingleRequests : h.epoch = 0 /\ Reject(p, r)
  \/ \E p \in Uploaders : \E r \in SingleRequests : h.epoch = 0 /\ Stamp(p, r)
  \/ \E p \in Uploaders : SaveOpen(p)
  \/ \E p \in Uploaders : SaveCopy(p)
  \/ \E p \in Uploaders : FormOpen(p)
  \/ \E p \in Uploaders : DecodeFail(p)
  \/ \E p \in Uploaders : FormWrite(p)
  \/ \E p \in Uploaders : StorageFail(p)
  \/ \E p \in Uploaders : SetFilename(p)
  \/ \E p \in Uploaders : SetTimestamp(p)

SpecSingle == Init /\ [][SingleNext]_vars

(* --------------------------- restarts ---------------------------------- *)
\* restarts of the server process in one run
MaxRestarts == 1

\* the process is started again: the module is imported anew, so lines
\* 13-16 run again, and line 10 keeps the uploads/ directory it finds; the
\* threads of the old process are gone with their requests unanswered
RestartKeepingLatest ==
  /\ h.boots < MaxRestarts
  /\ up' = [p \in Uploaders |-> IdleUp]
  /\ rd' = [r \in Viewers |-> IdleRd]
  /\ h' = [h EXCEPT !.boots = @ + 1, !.quiet = NoQuiet]
  /\ UNCHANGED <<clock, fs, latest, cl>>
Restart ==
  /\ h.boots < MaxRestarts
  /\ latest' = [filename |-> None, timestamp |-> None]
  /\ up' = [p \in Uploaders |-> IdleUp]
  /\ rd' = [r \in Viewers |-> IdleRd]
  /\ h' = [h EXCEPT !.boots = @ + 1, !.quiet = NoQuiet, !.maxRet = 0,
                    !.src = [filename |-> 0, timestamp |-> 0]]
  /\ UNCHANGED <<clock, fs, cl>>

\* no upload is in flight
Quiet == \A p \in Uploaders : ~InFlight(up[p])

\* the server with one upload at a time, its viewers, and restarts
RestartNext ==
  \/ Tick
  \/ \E p \in Uploaders : \E r \in Requests : Quiet /\ Reject(p, r)
  \/ \E p \in Uploaders : \E r \in Requests : Quiet /\ Stamp(p, r)
  \/ \E p \in Uploaders : SaveOpen(p)
  \/ \E p \in Uploaders : SaveCopy(p)
  \/ \E p \in Uploaders : FormOpen(p)
  \/ \E p \in Uploaders : DecodeFail(p)
  \/ \E p \in Uploaders : FormWrite(p)
  \/ \E p \in Uploaders : StorageFail(p)
  \/ \E p \in Uploaders : SetFilename(p)
  \/ \E p \in Uploaders : SetTimestamp(p)
  \/ \E r \in Viewers : QCheck(r)
  \/ \E r \in Viewers : QFilename(r)
  \/ \E r \in Viewers : QTimestamp(r)
  \/ \E r \in Viewers : QUrl(r)
  \/ \E r \in Viewers : \E name \in Filenames \cup {MissingName} : GLookup(r, name)
  \/ \E r \in Viewers : GSend(r)
  \/ Restart

SpecRestart == Init /\ [][RestartNext]_vars

(* --------------------------- scheduling -------------------------------- *)
\* the steps of the /upload handler thread p after it has taken its request
UploadStep(p) ==
  \/ SaveOpen(p) \/ SaveCopy(p)
  \/ FormOpen(p) \/ DecodeFail(p) \/ FormWrite(p)
  \/ StorageFail(p)
  \/ SetFilename(p) \/ SetTimestamp(p)

\* every handler thread is a thread of its own that the interpreter keeps
\* scheduling (threaded server, line 94): a thread that can step does step
Fairness == \A p \in Uploaders : WF_vars(UploadStep(p))

\* the server within one instant of the clock
LiveNext ==
  \/ \E p \in Uploaders : \E r \in Requests : Reject(p, r)
  \/ \E p \in Uploaders : \E r \in Requests : Stamp(p, r)
  \/ \E p \in Uploaders : UploadStep(p)
  \/ \E r \in Viewers : QCheck(r)
  \/ \E r \in Viewers : QFilename(r)
  \/ \E r \in Viewers : QTimestamp(r)
  \/ \E r \in Viewers : QUrl(r)
  \/ \E r \in Viewers : \E name \in Filenames \cup {MissingName} : GLookup(r, name)
  \/ \E r \in Viewers : GSend(r)

SpecLive == Init /\ [][LiveNext]_vars /\ Fairness

(* --------------------------- the test client --------------------------- *)
\* largest count argument of a simulate_esp32s3 call
MaxCount == 3

\* interval arguments, in seconds (10 is the default)
Intervals == {1, 2, 10}

\* what an upload_image_binary call meets: the status of the response, or
\* an exception of requests.post
Outcomes == {"200", "400", "500", "exception"}

\* upload_image_binary: the JSON body of a 200 response, None otherwise
ResultOf(outcome) == IF outcome = "200" THEN "json" ELSE "None"

\* line 178 of test.py: if result
Truth(result) == result = "json"

\* line 180 of test.py: if i < count - 1
SleepsAfterEvery(i, count) == TRUE
SleepsAfter(i, count) == i < count - 1

server == <<clock, fs, latest, up, rd, h>>

\* lines 168-174: the call, and return False when the image file is missing
Simulate(exists, interval, count) ==
  /\ cl.pc = "idle"
  /\ cl' = [IdleClient EXCEPT !.exists = exists, !.interval = interval,
                              !.count = count,
                              !.pc = IF exists THEN "l175" ELSE "done",
                              !.ret = IF exists THEN "" ELSE "False"]
  /\ UNCHANGED server

\* line 175, for i in range(count); lines 186-187 when the range is used up
LoopHead ==
  /\ cl.pc = "l175"
  /\ cl' = IF cl.i < cl.count
           THEN [cl EXCEPT !.pc = "l177"]
           ELSE [cl EXCEPT !.pc = "done", !.ret = "True"]
  /\ UNCHANGED server

\* line 177: upload_image_binary posts the request and blocks
Post ==
  /\ cl.pc = "l177"
  /\ cl' = [cl EXCEPT !.pc = "l177_wait", !.posted = @ + 1,
                      !.sinceSleep = @ + 1, !.lastSleep = FALSE]
  /\ UNCHANGED server

\* line 177: upload_image_binary returns
Return(outcome) ==
  /\ cl.pc = "l177_wait"
  /\ cl' = [cl EXCEPT !.pc = "l178", !.result = ResultOf(outcome),
                      !.succeeded = IF outcome = "200" THEN @ + 1 ELSE @]
  /\ UNCHANGED server

\* lines 178-184: after a success the next cycle, through the sleep of line
\* 181 when one is due; after a failure return False
Branch ==
  /\ cl.pc = "l178"
  /\ cl' = IF Truth(cl.result)
           THEN IF SleepsAfter(cl.i, cl.count)
                THEN [cl EXCEPT !.pc = "l181"]
                ELSE [cl EXCEPT !.pc = "l175", !.i = @ + 1]
           ELSE [cl EXCEPT !.pc = "done", !.ret = "False"]
  /\ UNCHANGED server

\* line 181: time.sleep(interval)
Sleep ==
  /\ cl.pc = "l181"
  /\ cl' = [cl EXCEPT !.pc = "l175", !.i = @ + 1, !.slept = @ + cl.interval,
                      !.sinceSleep = 0, !.lastSleep = TRUE]
  /\ UNCHANGED server

ClientNext ==
  \/ \E e \in BOOLEAN : \E interval \in Intervals : \E count \in 0..MaxCount :
       Simulate(e, interval, count)
  \/ LoopHead
  \/ Post
  \/ \E o \in Outcomes : Return(o)
  \/ Branch
  \/ Sleep

SpecClient == Init /\ [][ClientNext]_vars

(* --------------------------- properties -------------------------------- *)
Done(x) == x.pc = "done"

\* C1: whenever latest_image names a file, that file exists in uploads/;
\* an upload has written latest_image only if its own store write had
\* returned, so an upload whose store write failed never writes it.
C1_PointerNamesStoredBlob ==
  /\ latest.filename # None => latest.filename \in DOMAIN fs
  /\ \A p \in Uploaders : up[p].wrote => up[p].putDone
  /\ \A p \in Uploaders : up[p].resp.status = 500 => ~up[p].wrote

\* one upload is between its two register writes while another has failed
C1_Witness ==
  /\ latest.filename # None
  /\ \E p, q \in Uploaders :
       /\ up[p].pc = "l63" /\ up[p].putDone
       /\ up[q].resp.status = 500

\* C2: the filename and the timestamp of one /latest response come from one
\* upload: filename = "image_" + timestamp + ".jpg".
C2_NoTornRecord ==
  \A r \in Viewers :
    (Done(rd[r]) /\ rd[r].route = "latest" /\ rd[r].resp.status = 200)
      => rd[r].resp.filename = FilenameOf(rd[r].resp.timestamp)

\* C3: a retrieval of K that started after a put for K had returned answers
\* with the complete bytes of some put for K that has returned.
C3_NoPartialBlob ==
  [][\A r \in Viewers :
       (rd[r].route = "images" /\ rd[r].hadPut /\ ~Done(rd[r]) /\ Done(rd'[r]))
         => /\ rd'[r].resp.status = 200
            /\ <<rd[r].name, rd'[r].resp.body>> \in h.puts]_vars

\* C4: a /latest that started after a register update had returned answers
\* 200 with the filename and the timestamp of one update, which is that
\* update or one that started later.
C4_LastWriterVisible ==
  [][\A r \in Viewers :
       (rd[r].route = "latest" /\ rd[r].minSeq > 0 /\ ~Done(rd[r]) /\ Done(rd'[r]))
         => /\ rd'[r].resp.status = 200
            /\ rd[r].fnSeq = rd[r].tsSeq
            /\ rd[r].fnSeq >= rd[r].minSeq]_vars

\* C5: after an upload that ran with no other upload in flight has answered
\* success with filename F, and until the next upload arrives, latest_image
\* names F, the file F holds the uploaded bytes, a /latest started in that
\* period answers F and a retrieval of F started in it answers those bytes.
C5_UploadThenRead ==
  /\ h.quiet # NoQuiet =>
       /\ latest.filename = h.quiet.filename
       /\ h.quiet.filename \in DOMAIN fs
       /\ fs[h.quiet.filename] = h.quiet.data
  /\ \A r \in Viewers :
       (Done(rd[r]) /\ rd[r].quiet) =>
          /\ rd[r].resp.status = 200
          /\ rd[r].route = "latest" => rd[r].resp.filename = h.quiet.filename
          /\ rd[r].route = "images" => rd[r].resp.body = h.quiet.data

\* a two-chunk multipart upload ran alone and a retrieval started after it
\* has answered
C5_Witness ==
  /\ h.quiet # NoQuiet
  /\ Len(h.quiet.data) = 2
  /\ \E r \in Viewers :
       /\ Done(rd[r]) /\ rd[r].quiet /\ rd[r].route = "images"
       /\ rd[r].resp.body = h.quiet.data

\* C6: a filename that an upload has answered success with stays a file of
\* uploads/, and a retrieval of it that started after that answer never
\* answers 404.
C6_AckedStaysRetrievable ==
  /\ h.acked \subseteq DOMAIN fs
  /\ \A r \in Viewers :
       (Done(rd[r]) /\ rd[r].route = "images" /\ rd[r].acked)
         => rd[r].resp.status = 200

\* a retrieval of an acknowledged filename has answered while a later
\* upload of the same filename has truncated the file
C6_Witness ==
  \E r \in Viewers :
    /\ Done(rd[r]) /\ rd[r].route = "images" /\ rd[r].acked
    /\ rd[r].resp.status = 200
    /\ \E p \in Uploaders : InFlight(up[p]) /\ up[p].filename = rd[r].name

\* C7: when the only two uploads of the run took their timestamp in the
\* same second and both have answered success, they have the same filename,
\* the file holds exactly the bytes of one of them, and latest_image holds
\* their record.
C7_LastWriteWins ==
  \A p, q \in Uploaders :
    ( /\ p # q /\ h.epoch = 2
      /\ Done(up[p]) /\ up[p].resp.status = 200
      /\ Done(up[q]) /\ up[q].resp.status = 200
      /\ up[p].timestamp = up[q].timestamp )
    => /\ up[p].filename = up[q].filename
       /\ fs[up[p].filename] \in {up[p].data, up[q].data}
       /\ latest = [filename |-> up[p].filename, timestamp |-> up[p].timestamp]

\* the request has no 'image' in either form, or a file part without a name
NoImageData(req) ==
  \/ ~req.files.present /\ ~req.form.present
  \/ req.files.present /\ req.files.filename = None

\* C8: an upload request without image data is answered 400 with an error
\* message, and latest_image and uploads/ are left as they were.
C8_InvalidInputRejected ==
  [][\A p \in Uploaders :
       ( /\ ~InFlight(up[p]) /\ h'.epoch > h.epoch
         /\ up'[p] # up[p] /\ NoImageData(up'[p].req) )
       => /\ Done(up'[p])
          /\ up'[p].resp.status = 400
          /\ up'[p].resp.error # ""
          /\ latest' = latest
          /\ fs' = fs]_vars

\* a file part with an empty filename was answered 400 while latest_image
\* names a file
C8_Witness ==
  /\ latest.filename # None
  /\ \E p \in Uploaders :
       /\ Done(up[p]) /\ up[p].resp.status = 400
       /\ up[p].resp.error = "No image selected"

\* C9: an upload that leaves its decode or store step other than by
\* completing it answers 500 with the description of the failure and has
\* not written latest_image; an upload whose payload does not decode
\* leaves that way.
C9_FailureAnswered500 ==
  [][\A p \in Uploaders :
       /\ ( /\ up[p].pc \in {"l43_open", "l43_copy", "l58", "l59"}
            /\ Done(up'[p]) )
          => /\ up'[p].resp.status = 500
             /\ up'[p].resp.error \in {"Incorrect padding", "OSError"}
             /\ ~up[p].wrote /\ ~up'[p].wrote
             /\ latest' = latest
       /\ ( /\ up[p].pc = "l59" /\ up'[p] # up[p] /\ up'[p].pc # "l59"
            /\ b64decode(StripPrefix(up[p].req.form.image)) = DecodeError )
          => /\ Done(up'[p])
             /\ up'[p].resp.error = "Incorrect padding"]_vars

\* a base64 upload failed to decode while latest_image names a file
C9_Witness ==
  /\ latest.filename # None
  /\ \E p \in Uploaders :
       /\ Done(up[p]) /\ up[p].resp.status = 500
       /\ up[p].resp.error = "Incorrect padding"

\* C10: /latest answers 404 when latest_image is empty and only then, and
\* otherwise 200 with a filename and a timestamp that are both non-empty;
\* latest_image never becomes empty again, so that no 404 follows a 200.
C10_LatestDescriptor ==
  [][/\ latest.filename # None => latest'.filename # None
     /\ \A r \in Viewers :
          (rd'[r] # rd[r] /\ Done(rd'[r]) /\ rd'[r].route = "latest") =>
             /\ rd'[r].resp.status \in {200, 404}
             /\ rd'[r].resp.status = 404 <=> (rd[r].pc # "l81" /\ latest.filename = None)
             /\ rd'[r].resp.status = 200 =>
                  (rd'[r].resp.filename # None /\ rd'[r].resp.timestamp # None)]_vars

\* the part of s after its first comma, s itself when it has no comma
AfterFirstComma(s) ==
  IF \E i \in 1..Len(s) : s[i] = ","
  THEN LET i == CHOOSE j \in 1..Len(s) :
                  s[j] = "," /\ \A k \in 1..(j - 1) : s[k] # ","
       IN SubSeq(s, i + 1, Len(s))
  ELSE s

\* C11: once a form-field upload has written its file, the file holds the
\* base64 decoding of the field with exactly the prefix up to and including
\* the first comma removed, also when the field has more than one comma
\* (stated for the fields whose remainder is decodable).
C11_StripsFirstPrefixOnly ==
  \A p \in Uploaders :
    ( /\ up[p].pc = "l62" /\ up[p].req.form.present /\ ~up[p].req.files.present
      /\ b64decode(AfterFirstComma(up[p].req.form.image)) # DecodeError )
      => fs[up[p].filename] = b64decode(AfterFirstComma(up[p].req.form.image))

\* C12: latest_image changes only in the register update of an upload whose
\* store write has returned, and that upload then answers 200; an upload at
\* line 62 or 63 can always take its step, and the step writes its own
\* filename, resp. timestamp, whatever latest_image held, so the timestamp
\* held may go back to an earlier second.
C12_UnconditionalSet ==
  [][/\ latest' # latest =>
          \E p \in Uploaders :
            /\ up[p].putDone
            /\ \/ up[p].pc = "l62" /\ up'[p].pc = "l63"
               \/ up[p].pc = "l63" /\ up'[p].resp.status = 200
     /\ \A p \in Uploaders :
          /\ up[p].pc = "l62" => ENABLED SetFilename(p)
          /\ up[p].pc = "l63" => ENABLED SetTimestamp(p)
          /\ (up[p].pc = "l62" /\ up'[p].pc # "l62")
               => (up'[p].pc = "l63" /\ latest'.filename = up[p].filename)
          /\ (up[p].pc = "l63" /\ up'[p].pc # "l63")
               => /\ Done(up'[p]) /\ up'[p].resp.status = 200
                  /\ latest'.timestamp = up[p].timestamp
          /\ up'[p].resp.status = 200 => up'[p].wrote]_vars

\* two uploads have answered success and latest_image holds the record of
\* the one that took the earlier timestamp
C12_Witness ==
  \E p, q \in Uploaders :
    /\ p # q
    /\ Done(up[p]) /\ up[p].resp.status = 200
    /\ Done(up[q]) /\ up[q].resp.status = 200
    /\ SecOf(up[p].timestamp) < SecOf(up[q].timestamp)
    /\ latest = [filename |-> up[p].filename, timestamp |-> up[p].timestamp]

\* a step of the viewer thread r (an arriving upload only clears history)
ViewerStep(r) == up' = up /\ rd'[r] # rd[r]

\* C13: a retrieval of a name that is no file of uploads/ completes with a
\* 404 response; a retrieval of a name that is a file is not answered 404
\* and completes with 200 and the bytes the file holds.
C13_RetrievalByKey ==
  [][\A r \in Viewers :
       /\ (ViewerStep(r) /\ rd[r].pc # "send" /\ rd'[r].route = "images")
            => IF rd'[r].name \in DOMAIN fs
               THEN rd'[r].pc = "send"
               ELSE Done(rd'[r]) /\ rd'[r].resp.status = 404
       /\ (ViewerStep(r) /\ rd[r].pc = "send")
            => /\ Done(rd'[r]) /\ rd'[r].resp.status = 200
               /\ rd[r].name \in DOMAIN fs
               /\ rd'[r].resp.body = fs[rd[r].name]]_vars

\* does-not-exist.jpg was answered 404 while uploads/ holds the file that
\* latest_image names
C13_Witness ==
  /\ latest.filename # None /\ latest.filename \in DOMAIN fs
  /\ \E r \in Viewers :
       /\ Done(rd[r]) /\ rd[r].route = "images"
       /\ rd[r].name = MissingName /\ rd[r].resp.status = 404

\* C14: no step of a /latest or /images/<filename> handler, whether it ends
\* in 200 or in 404, changes latest_image or the files of uploads/.
C14_ReadsHaveNoEffect ==
  [][\A r \in Viewers :
       ViewerStep(r) => (latest' = latest /\ fs' = fs)]_vars

\* the file that latest_image names has been retrieved with 200
C14_Witness ==
  \E r \in Viewers :
    /\ Done(rd[r]) /\ rd[r].route = "images" /\ rd[r].resp.status = 200
    /\ latest.filename = rd[r].name
    /\ rd[r].name \in DOMAIN fs

\* C15: a restart leaves latest_image empty and the files of uploads/ as
\* they were; from then on latest_image stays empty until an upload runs
\* its register update, and a /latest that finds it empty answers 404;
\* every filename an upload has answered success with, before or after a
\* restart, stays a file of uploads/, and a retrieval of it answers 200.
C15_RestartResetsRegisterOnly ==
  [][/\ h'.boots > h.boots
          => /\ latest' = [filename |-> None, timestamp |-> None]
             /\ fs' = fs
             /\ h'.acked = h.acked
     /\ (latest.filename = None /\ latest'.filename # None)
          => \E p \in Uploaders : up[p].pc = "l62" /\ up[p].putDone
     /\ \A r \in Viewers :
          /\ ( /\ ViewerStep(r) /\ rd[r].pc \in {"idle", "done"}
               /\ rd'[r].route = "latest" /\ latest.filename = None )
             => (Done(rd'[r]) /\ rd'[r].resp.status = 404)
          /\ (Done(rd'[r]) /\ rd'[r].route = "images" /\ rd'[r].acked)
             => rd'[r].resp.status = 200
     /\ h'.acked \subseteq DOMAIN fs']_vars

\* after a restart, with latest_image still empty, a file acknowledged
\* before the restart has been retrieved with its two bytes
C15_Witness ==
  /\ h.boots > 0
  /\ latest.filename = None
  /\ \E r \in Viewers :
       /\ Done(rd[r]) /\ rd[r].route = "images" /\ rd[r].acked
       /\ rd[r].resp.status = 200 /\ Len(rd[r].resp.body) = 2

\* C16: a request that carries 'image' both as a file part and as a form
\* field is not accepted: it stores nothing and never writes latest_image.
C16_ExactlyOneForm ==
  \A p \in Uploaders :
    (up[p].req.files.present /\ up[p].req.form.present)
      => (~up[p].putDone /\ ~up[p].wrote)

\* C17: in a 200 response of /latest, url is "/images/" followed by the
\* filename of the same response.
C17_UrlNamesFilename ==
  \A r \in Viewers :
    (Done(rd[r]) /\ rd[r].route = "latest" /\ rd[r].resp.status = 200)
      => rd[r].resp.url = UrlOf(rd[r].resp.filename)

\* C18: no step of a form-field upload whose field does not decode changes
\* the files of uploads/: it creates no file and leaves a file that is
\* already stored under its filename as it is.
C18_FailedDecodeKeepsStore ==
  [][\A p \in Uploaders :
       ( /\ InFlight(up[p]) /\ up'[p].pc # up[p].pc
         /\ up[p].req.form.present /\ ~up[p].req.files.present
         /\ Decoded(up[p].req) = DecodeError )
       => fs' = fs]_vars

\* C19: an upload in flight can always take its next step, whatever the
\* other uploads and the viewers are doing, and under fair scheduling it
\* completes; a completed upload carries one response, 200, 400 or 500.
C19_UploadsComplete ==
  /\ [](\A p \in Uploaders : InFlight(up[p]) => ENABLED <<UploadStep(p)>>_vars)
  /\ [](\A p \in Uploaders : Done(up[p]) => up[p].resp.status \in {200, 400, 500})
  /\ \A p \in Uploaders : InFlight(up[p]) ~> Done(up[p])

\* an upload has answered 200 while the other upload is between its two
\* register writes and a /latest is between its reads
C19_Witness ==
  \E p, q \in Uploaders :
    /\ Done(up[p]) /\ up[p].resp.status = 200
    /\ up[q].pc = "l63"
    /\ \E r \in Viewers : rd[r].pc = "l80"

\* C20: a simulate_esp32s3 call has at most one upload outstanding and posts
\* at most count uploads; after a failed upload it posts nothing more and
\* returns False; it returns True only with exactly count uploads posted and
\* all of them successful; it sleeps interval once between two consecutive
\* uploads and never after its last upload.
C20_ClientLoop ==
  LET failed == IF cl.result = "None" THEN 1 ELSE 0
      waiting == IF cl.pc = "l177_wait" THEN 1 ELSE 0
  IN /\ cl.posted = cl.succeeded + failed + waiting
     /\ cl.posted <= cl.count
     /\ failed = 1 => cl.pc \in {"l178", "done"}
     /\ (cl.pc = "done" /\ failed = 1) => cl.ret = "False"
     /\ cl.ret = "False" => (failed = 1 \/ (~cl.exists /\ cl.posted = 0))
     /\ cl.ret = "True" => (failed = 0 /\ cl.succeeded = cl.count)
     /\ cl.sinceSleep <= 1
     /\ cl.lastSleep => (cl.pc \in {"l175", "l177"} /\ cl.i < cl.count)
     /\ (cl.ret = "True" /\ cl.count > 0)
          => cl.slept = cl.interval * (cl.count - 1)
     /\ (cl.ret = "False" /\ cl.exists) => cl.slept = cl.interval * cl.succeeded

\* a call with count 3 has returned False after its second upload failed
C20_Witness ==
  /\ cl.ret = "False" /\ cl.count = 3
  /\ cl.posted = 2 /\ cl.succeeded = 1 /\ cl.slept = cl.interval

====
